---- MODULE Spec2Model ----
(***************************************************************************)
(* A model of tlrepo::ThreadLocalRepo (src/src/lib.rs).                    *)
(*                                                                         *)
(* ThreadLocalRepo owns a path and a thread_local::ThreadLocal<Repository>.*)
(*   get()          = self.tl.get_or_try(|| Repository::open(&self.path))  *)
(*   get_uncached() = Repository::open(&self.path)                         *)
(*                                                                         *)
(* get_or_try is modelled by the three steps it performs on the calling    *)
(* thread: look the caller's entry up (allocating the caller's thread id   *)
(* on first use), run the closure on a miss, and insert the value the      *)
(* closure produced.  `?` returns the closure's error before the insert.   *)
(*                                                                         *)
(* The key of an entry of ThreadLocal is the thread id that the            *)
(* thread_local crate hands out: ids are allocated lazily, released when   *)
(* the thread exits, and handed out again to threads that ask later.       *)
(* Entries are only dropped with the ThreadLocal itself.                   *)
(***************************************************************************)
EXTENDS Integers, FiniteSets, Sequences, TLC

\* ---------------------------------------------------------------- bounds
\* Number of threads followed, and number of Repository::open invocations
\* after which no further call that would open is started.
NThreads == 2
MaxOpens == 3

Threads == 1..NThreads
SlotIds == 1..NThreads
Paths == {"repoA", "repoB"}
FsStates == {"valid", "missing"}

NoId == 0
NoHandle == 0

VARIABLES
  path,       \* ThreadLocalRepo.path
  ctor,       \* how the ThreadLocalRepo was made: the path given to new, and the
              \* Repository thread_local() was called on (NoHandle for a plain new)
  tl,         \* ThreadLocalRepo.tl : thread id -> stored Repository (NoHandle = vacant)
  fs,         \* what Repository::open finds at each path
  status,     \* each thread: "unstarted", "running", "exited"
  tid,        \* thread id the thread_local crate gave to each thread (NoId = none yet)
  freeIds,    \* thread ids released by exited threads
  freeFrom,   \* next never-used thread id
  pc,         \* position of each thread inside get(): "idle", "get_open", "get_insert"
  opened,     \* the Repository the closure returned, not yet inserted
  ret,        \* what the last completed call of each thread returned
  nextHandle, \* identity of the next Repository object Repository::open creates
  openCalls,  \* number of Repository::open invocations (all callers)
  getOpens,   \* per thread: Repository::open invocations made by get()
  getOpenOk,  \* per thread: those that succeeded
  getErrs,    \* per thread: get() calls that returned Err
  getMisses,  \* per thread: completed get() calls that found the entry vacant
  ucCalls,    \* per thread: completed get_uncached() calls
  ucReturned, \* Repository objects handed out by get_uncached()
  callOpens,  \* per thread: Repository::open invocations made by the current/last call
  lastOpen,   \* per thread: result of the Repository::open made by the current/last call
  firstGot    \* per thread: the Repository of the first get() that returned Ok

vars == <<path, ctor, tl, fs, status, tid, freeIds, freeFrom, pc, opened, ret,
          nextHandle, openCalls, getOpens, getOpenOk, getErrs, getMisses,
          ucCalls, ucReturned, callOpens, lastOpen, firstGot>>

\* ------------------------------------------------------------ results
Ok(op, h) == [op |-> op, ok |-> TRUE, h |-> h, err |-> "none"]
Err(op, e) == [op |-> op, ok |-> FALSE, h |-> NoHandle, err |-> e]
NoRet == [op |-> "none", ok |-> FALSE, h |-> NoHandle, err |-> "none"]
NoOpen == [called |-> FALSE, arg |-> "none", ok |-> FALSE, err |-> "none"]

\* Repository::open(p): succeeds iff a repository is found at p, and fails
\* with git2's not-found error otherwise.
Opener(p, f) ==
  IF f[p] = "valid" THEN [called |-> TRUE, arg |-> p, ok |-> TRUE, err |-> "none"]
  ELSE [called |-> TRUE, arg |-> p, ok |-> FALSE, err |-> "NotFound"]

\* `?` in get_or_try / the direct return of get_uncached: E = git2::Error on
\* both sides, so the error value reaches the caller as it is.
PropagateGeneric(e) == "Generic"
Propagate(e) == e

\* The entry of thread t (vacant while t has no thread id).
Slot(t) == IF tid[t] = NoId THEN NoHandle ELSE tl[tid[t]]

Stored == {tl[i] : i \in SlotIds} \ {NoHandle}

RECURSIVE SumOver(_, _)
SumOver(f, S) ==
  IF S = {} THEN 0
  ELSE LET x == CHOOSE y \in S : TRUE IN f[x] + SumOver(f, S \ {x})

\* The lookup never finding an entry.
get_inner_miss(slots, id) == NoHandle

\* The lookup treating an entry as absent once its repository is gone from
\* the disk.
get_inner_checked(slots, id) == IF fs[path] = "valid" THEN slots[id] ELSE NoHandle

\* get_or_try's lookup of the entry of thread id `id`.
get_inner(slots, id) == slots[id]

\* The insert dropping the value.
insert_lost(slots, id, h) == slots

\* get_or_try's insert of a new value into the entry of thread id `id`.
insert(slots, id, h) == [slots EXCEPT ![id] = h]

InFlight == Cardinality({t \in Threads : pc[t] # "idle"})

\* thread_id::get() handing out ids without regard to who holds them.
ThreadIdChoicesAny(t) ==
  IF tid[t] # NoId THEN {tid[t]} ELSE SlotIds

\* thread_id::get(): the caller's id, allocated on first use from the released
\* ids or from the never-used ones.  The crate hands out the smallest released
\* id first; ids are shared by every ThreadLocal of the process, so a released
\* id may also have gone to a thread this model does not follow, and the
\* caller may get any released id or a new one.
ThreadIdChoices(t) ==
  IF tid[t] # NoId THEN {tid[t]} ELSE freeIds \cup {freeFrom}

\* ThreadLocalRepo::new(path): the path as given and an empty ThreadLocal.
new_fixed(p) == [path |-> "repoA", tl |-> [i \in SlotIds |-> NoHandle]]
new(p) == [path |-> p, tl |-> [i \in SlotIds |-> NoHandle]]

\* Path::to_path_buf: an owned copy of the path.
to_path_buf(p) == p

\* The Repository thread_local() is called on: opened before the
\* ThreadLocalRepo exists, so it is the first Repository object.
SrcHandle == 1

\* thread_local() that keeps the Repository it was called on as the entry of
\* the first thread id.
thread_local_shared(r) ==
  [path |-> to_path_buf(r.path),
   tl |-> [i \in SlotIds |-> IF i = 1 THEN r.h ELSE NoHandle]]

\* RepositoryExt::thread_local(&self): ThreadLocalRepo::new(self.path().to_path_buf()).
thread_local(r) == new(to_path_buf(r.path))

TypeOK ==
  /\ path \in Paths
  /\ tl \in [SlotIds -> 0..(MaxOpens + 1)]
  /\ fs \in [Paths -> FsStates]
  /\ status \in [Threads -> {"unstarted", "running", "exited"}]
  /\ tid \in [Threads -> 0..NThreads]
  /\ freeIds \subseteq SlotIds
  /\ freeFrom \in 1..(NThreads + 1)
  /\ pc \in [Threads -> {"idle", "get_open", "get_insert"}]
  /\ opened \in [Threads -> 0..(MaxOpens + 1)]
  /\ nextHandle \in 1..(MaxOpens + 2)
  /\ ctor.arg \in Paths /\ ctor.h \in {NoHandle, SrcHandle}
  /\ openCalls \in 0..MaxOpens

\* ---------------------------------------------------------------- Init
\* ThreadLocalRepo::new(path): stores the path, ThreadLocal::new() is empty.
Init ==
  /\ \E p \in Paths :
       /\ ctor = [arg |-> p, h |-> NoHandle]
       /\ path = new(p).path
       /\ tl = new(p).tl
  /\ fs \in {f \in [Paths -> FsStates] : \A q \in Paths \ {path} : f[q] = "missing"}
  /\ status = [t \in Threads |-> "unstarted"]
  /\ tid = [t \in Threads |-> NoId]
  /\ freeIds = {}
  /\ freeFrom = 1
  /\ pc = [t \in Threads |-> "idle"]
  /\ opened = [t \in Threads |-> NoHandle]
  /\ ret = [t \in Threads |-> NoRet]
  /\ nextHandle = 1
  /\ openCalls = 0
  /\ getOpens = [t \in Threads |-> 0]
  /\ getOpenOk = [t \in Threads |-> 0]
  /\ getErrs = [t \in Threads |-> 0]
  /\ getMisses = [t \in Threads |-> 0]
  /\ ucCalls = [t \in Threads |-> 0]
  /\ ucReturned = {}
  /\ callOpens = [t \in Threads |-> 0]
  /\ lastOpen = [t \in Threads |-> NoOpen]
  /\ firstGot = [t \in Threads |-> NoHandle]

\* The state after repo.thread_local(), for a Repository `repo` that some
\* thread opened earlier: one Repository object exists already, and
\* repo.path() is the path the new ThreadLocalRepo is given.
InitAdapter ==
  /\ \E p \in Paths :
       LET repo == [h |-> SrcHandle, path |-> p] IN
         /\ ctor = [arg |-> repo.path, h |-> repo.h]
         /\ path = thread_local(repo).path
         /\ tl = thread_local(repo).tl
  /\ fs \in {f \in [Paths -> FsStates] : \A q \in Paths \ {path} : f[q] = "missing"}
  /\ status = [t \in Threads |-> "unstarted"]
  /\ tid = [t \in Threads |-> NoId]
  /\ freeIds = {}
  /\ freeFrom = 1
  /\ pc = [t \in Threads |-> "idle"]
  /\ opened = [t \in Threads |-> NoHandle]
  /\ ret = [t \in Threads |-> NoRet]
  /\ nextHandle = SrcHandle + 1
  /\ openCalls = 0
  /\ getOpens = [t \in Threads |-> 0]
  /\ getOpenOk = [t \in Threads |-> 0]
  /\ getErrs = [t \in Threads |-> 0]
  /\ getMisses = [t \in Threads |-> 0]
  /\ ucCalls = [t \in Threads |-> 0]
  /\ ucReturned = {}
  /\ callOpens = [t \in Threads |-> 0]
  /\ lastOpen = [t \in Threads |-> NoOpen]
  /\ firstGot = [t \in Threads |-> NoHandle]

\* ------------------------------------------------------------- threads
ThreadSpawn(t) ==
  /\ status[t] = "unstarted"
  /\ status' = [status EXCEPT ![t] = "running"]
  /\ UNCHANGED <<path, ctor, tl, fs, tid, freeIds, freeFrom, pc, opened, ret,
                 nextHandle, openCalls, getOpens, getOpenOk, getErrs, getMisses, ucCalls,
                 ucReturned, callOpens, lastOpen, firstGot>>

\* ThreadExit that prunes the entry of the exiting thread.
ThreadExitPrune(t) ==
  /\ status[t] = "running"
  /\ pc[t] = "idle"
  /\ status' = [status EXCEPT ![t] = "exited"]
  /\ freeIds' = IF tid[t] = NoId THEN freeIds ELSE freeIds \cup {tid[t]}
  /\ tl' = IF tid[t] = NoId THEN tl ELSE [tl EXCEPT ![tid[t]] = NoHandle]
  /\ UNCHANGED <<path, ctor, fs, tid, freeFrom, pc, opened, ret,
                 nextHandle, openCalls, getOpens, getOpenOk, getErrs, getMisses, ucCalls,
                 ucReturned, callOpens, lastOpen, firstGot>>

\* A thread exits between calls.  Its thread id is released; its entry in
\* the ThreadLocal stays (the cache is never pruned).
ThreadExit(t) ==
  /\ status[t] = "running"
  /\ pc[t] = "idle"
  /\ status' = [status EXCEPT ![t] = "exited"]
  /\ freeIds' = IF tid[t] = NoId THEN freeIds ELSE freeIds \cup {tid[t]}
  /\ UNCHANGED <<path, ctor, tl, fs, tid, freeFrom, pc, opened, ret,
                 nextHandle, openCalls, getOpens, getOpenOk, getErrs, getMisses, ucCalls,
                 ucReturned, callOpens, lastOpen, firstGot>>

\* The repository on disk is created or removed from outside.  Only
\* the location the ThreadLocalRepo was given ever holds one.
FsChange(p, s) ==
  /\ p = path
  /\ fs[p] # s
  /\ fs' = [fs EXCEPT ![p] = s]
  /\ UNCHANGED <<path, ctor, tl, status, tid, freeIds, freeFrom, pc, opened, ret,
                 nextHandle, openCalls, getOpens, getOpenOk, getErrs, getMisses, ucCalls,
                 ucReturned, callOpens, lastOpen, firstGot>>

\* ----------------------------------------------------------------- get
\* GetLookup with the previous failure of the thread remembered: after a get()
\* that returned Err, the next get() returns that Err without opening.
GetLookupMemo(t) ==
  /\ status[t] = "running"
  /\ pc[t] = "idle"
  /\ \E id \in ThreadIdChoices(t) :
       /\ get_inner(tl, id) # NoHandle \/ openCalls + InFlight < MaxOpens
       /\ tid' = [tid EXCEPT ![t] = id]
       /\ freeIds' = freeIds \ {id}
       /\ freeFrom' = IF id = freeFrom /\ tid[t] = NoId THEN freeFrom + 1 ELSE freeFrom
       /\ callOpens' = [callOpens EXCEPT ![t] = 0]
       /\ lastOpen' = [lastOpen EXCEPT ![t] = NoOpen]
       /\ IF get_inner(tl, id) # NoHandle
          THEN /\ ret' = [ret EXCEPT ![t] = Ok("get", get_inner(tl, id))]
               /\ firstGot' = [firstGot EXCEPT ![t] =
                                 IF @ = NoHandle THEN get_inner(tl, id) ELSE @]
               /\ pc' = pc
               /\ getErrs' = getErrs
          ELSE IF ret[t].op = "get" /\ ~ret[t].ok
          THEN /\ getErrs' = [getErrs EXCEPT ![t] = @ + 1]
               /\ UNCHANGED <<pc, ret, firstGot>>
          ELSE /\ pc' = [pc EXCEPT ![t] = "get_open"]
               /\ UNCHANGED <<ret, firstGot, getErrs>>
  /\ UNCHANGED <<path, ctor, tl, fs, status, opened, nextHandle, openCalls,
                 getOpens, getOpenOk, getMisses, ucCalls, ucReturned>>

\* get(), first step: get_or_try looks the caller's entry up.  A hit returns
\* the stored Repository; a miss goes on to run the closure.
GetLookup(t) ==
  /\ status[t] = "running"
  /\ pc[t] = "idle"
  /\ \E id \in ThreadIdChoices(t) :
       /\ get_inner(tl, id) # NoHandle \/ openCalls + InFlight < MaxOpens
       /\ tid' = [tid EXCEPT ![t] = id]
       /\ freeIds' = freeIds \ {id}
       /\ freeFrom' = IF id = freeFrom /\ tid[t] = NoId THEN freeFrom + 1 ELSE freeFrom
       /\ callOpens' = [callOpens EXCEPT ![t] = 0]
       /\ lastOpen' = [lastOpen EXCEPT ![t] = NoOpen]
       /\ IF get_inner(tl, id) # NoHandle
          THEN /\ ret' = [ret EXCEPT ![t] = Ok("get", get_inner(tl, id))]
               /\ firstGot' = [firstGot EXCEPT ![t] =
                                 IF @ = NoHandle THEN get_inner(tl, id) ELSE @]
               /\ pc' = pc
          ELSE /\ pc' = [pc EXCEPT ![t] = "get_open"]
               /\ UNCHANGED <<ret, firstGot>>
  /\ UNCHANGED <<path, ctor, tl, fs, status, opened, nextHandle, openCalls,
                 getOpens, getOpenOk, getErrs, getMisses, ucCalls, ucReturned>>

\* GetOpen with a failed open invalidating the entries of the table.
GetOpenReset(t) ==
  /\ pc[t] = "get_open"
  /\ LET r == Opener(path, fs) IN
       /\ openCalls' = openCalls + 1
       /\ getOpens' = [getOpens EXCEPT ![t] = @ + 1]
       /\ callOpens' = [callOpens EXCEPT ![t] = @ + 1]
       /\ lastOpen' = [lastOpen EXCEPT ![t] = r]
       /\ IF r.ok
          THEN /\ opened' = [opened EXCEPT ![t] = nextHandle]
               /\ nextHandle' = nextHandle + 1
               /\ getOpenOk' = [getOpenOk EXCEPT ![t] = @ + 1]
               /\ pc' = [pc EXCEPT ![t] = "get_insert"]
               /\ UNCHANGED <<ret, getErrs, getMisses, tl>>
          ELSE /\ ret' = [ret EXCEPT ![t] = Err("get", Propagate(r.err))]
               /\ getErrs' = [getErrs EXCEPT ![t] = @ + 1]
               /\ getMisses' = [getMisses EXCEPT ![t] = @ + 1]
               /\ pc' = [pc EXCEPT ![t] = "idle"]
               /\ tl' = [i \in SlotIds |-> NoHandle]
               /\ UNCHANGED <<opened, nextHandle, getOpenOk>>
  /\ UNCHANGED <<path, ctor, fs, status, tid, freeIds, freeFrom, ucCalls,
                 ucReturned, firstGot>>

\* get(), second step: the closure Repository::open(&self.path) runs; `?`
\* returns its error to the caller without touching the ThreadLocal.
GetOpen(t) ==
  /\ pc[t] = "get_open"
  /\ LET r == Opener(path, fs) IN
       /\ openCalls' = openCalls + 1
       /\ getOpens' = [getOpens EXCEPT ![t] = @ + 1]
       /\ callOpens' = [callOpens EXCEPT ![t] = @ + 1]
       /\ lastOpen' = [lastOpen EXCEPT ![t] = r]
       /\ IF r.ok
          THEN /\ opened' = [opened EXCEPT ![t] = nextHandle]
               /\ nextHandle' = nextHandle + 1
               /\ getOpenOk' = [getOpenOk EXCEPT ![t] = @ + 1]
               /\ pc' = [pc EXCEPT ![t] = "get_insert"]
               /\ UNCHANGED <<ret, getErrs, getMisses>>
          ELSE /\ ret' = [ret EXCEPT ![t] = Err("get", Propagate(r.err))]
               /\ getErrs' = [getErrs EXCEPT ![t] = @ + 1]
               /\ getMisses' = [getMisses EXCEPT ![t] = @ + 1]
               /\ pc' = [pc EXCEPT ![t] = "idle"]
               /\ UNCHANGED <<opened, nextHandle, getOpenOk>>
  /\ UNCHANGED <<path, ctor, tl, fs, status, tid, freeIds, freeFrom, ucCalls,
                 ucReturned, firstGot>>

\* GetInsert that waits until no other thread is inside a call.
GetInsertLocked(t) ==
  /\ pc[t] = "get_insert"
  /\ \A u \in Threads \ {t} : pc[u] = "idle"
  /\ tl' = insert(tl, tid[t], opened[t])
  /\ ret' = [ret EXCEPT ![t] = Ok("get", tl'[tid[t]])]
  /\ firstGot' = [firstGot EXCEPT ![t] = IF @ = NoHandle THEN tl'[tid[t]] ELSE @]
  /\ opened' = [opened EXCEPT ![t] = NoHandle]
  /\ getMisses' = [getMisses EXCEPT ![t] = @ + 1]
  /\ pc' = [pc EXCEPT ![t] = "idle"]
  /\ UNCHANGED <<path, ctor, fs, status, tid, freeIds, freeFrom, nextHandle,
                 openCalls, getOpens, getOpenOk, getErrs, ucCalls, ucReturned,
                 callOpens, lastOpen>>

\* get(), third step: the new Repository is inserted into the caller's entry
\* and a reference to the stored value is returned.
GetInsert(t) ==
  /\ pc[t] = "get_insert"
  /\ tl' = insert(tl, tid[t], opened[t])
  /\ ret' = [ret EXCEPT ![t] = Ok("get", tl'[tid[t]])]
  /\ firstGot' = [firstGot EXCEPT ![t] = IF @ = NoHandle THEN tl'[tid[t]] ELSE @]
  /\ opened' = [opened EXCEPT ![t] = NoHandle]
  /\ getMisses' = [getMisses EXCEPT ![t] = @ + 1]
  /\ pc' = [pc EXCEPT ![t] = "idle"]
  /\ UNCHANGED <<path, ctor, fs, status, tid, freeIds, freeFrom, nextHandle,
                 openCalls, getOpens, getOpenOk, getErrs, ucCalls, ucReturned,
                 callOpens, lastOpen>>

\* -------------------------------------------------------- get_uncached
\* GetUncached that also saves the new Repository in the caller's entry.
GetUncachedSaving(t) ==
  /\ status[t] = "running"
  /\ pc[t] = "idle"
  /\ openCalls + InFlight < MaxOpens
  /\ LET r == Opener(path, fs) IN
       /\ openCalls' = openCalls + 1
       /\ callOpens' = [callOpens EXCEPT ![t] = 1]
       /\ lastOpen' = [lastOpen EXCEPT ![t] = r]
       /\ ucCalls' = [ucCalls EXCEPT ![t] = @ + 1]
       /\ IF r.ok
          THEN /\ ret' = [ret EXCEPT ![t] = Ok("get_uncached", nextHandle)]
               /\ ucReturned' = ucReturned \cup {nextHandle}
               /\ nextHandle' = nextHandle + 1
               /\ tl' = IF tid[t] = NoId THEN tl ELSE insert(tl, tid[t], nextHandle)
          ELSE /\ ret' = [ret EXCEPT ![t] = Err("get_uncached", Propagate(r.err))]
               /\ UNCHANGED <<ucReturned, nextHandle, tl>>
  /\ UNCHANGED <<path, ctor, fs, status, tid, freeIds, freeFrom, pc, opened,
                 getOpens, getOpenOk, getErrs, getMisses, firstGot>>

\* GetUncached that hands out the caller's cached Repository when there is one.
GetUncachedFromCache(t) ==
  /\ status[t] = "running"
  /\ pc[t] = "idle"
  /\ openCalls + InFlight < MaxOpens
  /\ IF Slot(t) # NoHandle
     THEN /\ ret' = [ret EXCEPT ![t] = Ok("get_uncached", Slot(t))]
          /\ ucCalls' = [ucCalls EXCEPT ![t] = @ + 1]
          /\ callOpens' = [callOpens EXCEPT ![t] = 0]
          /\ lastOpen' = [lastOpen EXCEPT ![t] = NoOpen]
          /\ ucReturned' = ucReturned \cup {Slot(t)}
          /\ UNCHANGED <<openCalls, nextHandle>>
     ELSE LET r == Opener(path, fs) IN
          /\ openCalls' = openCalls + 1
          /\ callOpens' = [callOpens EXCEPT ![t] = 1]
          /\ lastOpen' = [lastOpen EXCEPT ![t] = r]
          /\ ucCalls' = [ucCalls EXCEPT ![t] = @ + 1]
          /\ IF r.ok
             THEN /\ ret' = [ret EXCEPT ![t] = Ok("get_uncached", nextHandle)]
                  /\ ucReturned' = ucReturned \cup {nextHandle}
                  /\ nextHandle' = nextHandle + 1
             ELSE /\ ret' = [ret EXCEPT ![t] = Err("get_uncached", Propagate(r.err))]
                  /\ UNCHANGED <<ucReturned, nextHandle>>
  /\ UNCHANGED <<path, ctor, tl, fs, status, tid, freeIds, freeFrom, pc, opened,
                 getOpens, getOpenOk, getErrs, getMisses, firstGot>>

\* get_uncached(): Repository::open(&self.path), returned to the caller.
GetUncached(t) ==
  /\ status[t] = "running"
  /\ pc[t] = "idle"
  /\ openCalls + InFlight < MaxOpens
  /\ LET r == Opener(path, fs) IN
       /\ openCalls' = openCalls + 1
       /\ callOpens' = [callOpens EXCEPT ![t] = 1]
       /\ lastOpen' = [lastOpen EXCEPT ![t] = r]
       /\ ucCalls' = [ucCalls EXCEPT ![t] = @ + 1]
       /\ IF r.ok
          THEN /\ ret' = [ret EXCEPT ![t] = Ok("get_uncached", nextHandle)]
               /\ ucReturned' = ucReturned \cup {nextHandle}
               /\ nextHandle' = nextHandle + 1
          ELSE /\ ret' = [ret EXCEPT ![t] = Err("get_uncached", Propagate(r.err))]
               /\ UNCHANGED <<ucReturned, nextHandle>>
  /\ UNCHANGED <<path, ctor, tl, fs, status, tid, freeIds, freeFrom, pc, opened,
                 getOpens, getOpenOk, getErrs, getMisses, firstGot>>

Next ==
  \/ \E t \in Threads : ThreadSpawn(t)
  \/ \E t \in Threads : ThreadExit(t)
  \/ \E p \in Paths, s \in FsStates : FsChange(p, s)
  \/ \E t \in Threads : GetLookup(t)
  \/ \E t \in Threads : GetOpen(t)
  \/ \E t \in Threads : GetInsert(t)
  \/ \E t \in Threads : GetUncached(t)

Spec == Init /\ [][Next]_vars

\* The ThreadLocalRepo made by thread_local() instead of new().
SpecAdapter == InitAdapter /\ [][Next]_vars

\* The callers' threads are scheduled fairly: a call that can take its next
\* step takes it.  Nothing makes a thread start a call or exit.
FairSpec ==
  /\ Spec
  /\ \A t \in Threads : WF_vars(GetOpen(t)) /\ WF_vars(GetInsert(t))

\* ------------------------------------------------------------ properties
GetOpensTotal == SumOver(getOpens, Threads)
GetOpenOkTotal == SumOver(getOpenOk, Threads)
Called == {t \in Threads : tid[t] # NoId}
AllIdle == \A t \in Threads : pc[t] = "idle"

\* C1: once get() has returned Ok(h) to thread t, every later get() of t
\* returns Ok with that same Repository object h, whatever the other threads,
\* get_uncached() and the repository on disk did in between.
C1_SameHandleAgain ==
  \A t \in Threads :
    (firstGot[t] # NoHandle /\ ret[t].op = "get")
      => (ret[t].ok /\ ret[t].h = firstGot[t])

\* t opened its Repository itself, the repository has since become
\* unopenable, and the last call of t was a get() served from the cache.
C1_Witness ==
  \E t \in Threads :
    /\ getOpenOk[t] = 1 /\ ucCalls[t] > 0
    /\ fs[path] # "valid"
    /\ pc[t] = "idle" /\ ret[t].op = "get" /\ callOpens[t] = 0
    /\ ret[t].h = firstGot[t]

\* C2: get() succeeding on two distinct threads yields two different
\* Repository objects, also when one thread started after the other exited.
C2_DistinctThreadsDistinctHandles ==
  \A t1, t2 \in Threads :
    (t1 # t2 /\ firstGot[t1] # NoHandle /\ firstGot[t2] # NoHandle)
      => firstGot[t1] # firstGot[t2]

\* C3: a get() that failed leaves the caller's entry vacant, the get() after
\* it opens again, and while the entry of t is vacant every get() of t so far
\* returned Err and made exactly one Repository::open each.
C3_FailureNotMemoized ==
  /\ [](\A t \in Threads :
          (status[t] = "running" /\ pc[t] = "idle") =>
            /\ (ret[t].op = "get" /\ ~ret[t].ok) => Slot(t) = NoHandle
            /\ Slot(t) = NoHandle =>
                 (firstGot[t] = NoHandle /\ getErrs[t] = getOpens[t]))
  /\ [][\A t \in Threads :
          (ret[t].op = "get" /\ ~ret[t].ok /\ ret'[t].op = "get" /\ ret'[t] # ret[t])
            => (callOpens'[t] = 1 /\ lastOpen'[t].called)]_vars

\* Two consecutive failed get() calls of one thread, two opens.
C3_Witness ==
  \E t \in Threads :
    /\ status[t] = "running" /\ pc[t] = "idle"
    /\ getErrs[t] >= 2 /\ getOpens[t] = getErrs[t] /\ openCalls = getErrs[t]
    /\ ret[t].op = "get" /\ ~ret[t].ok
    /\ Slot(t) = NoHandle

\* C4: the steps of a get() call that returns Err (the lookup that misses and
\* the open that fails) leave the path and every entry of the table as they
\* were.
C4_FailedGetChangesNothing ==
  [][\A t \in Threads :
       (\/ (pc[t] = "idle" /\ pc'[t] = "get_open")
        \/ (pc[t] = "get_open" /\ pc'[t] = "idle"))
         => (tl' = tl /\ path' = path)]_vars

\* A get() has just failed on one thread while another thread's entry holds
\* the Repository that thread got.
C4_Witness ==
  \E t, u \in Threads :
    /\ t # u
    /\ pc[t] = "idle" /\ ret[t].op = "get" /\ ~ret[t].ok /\ callOpens[t] = 1
    /\ status[u] = "running" /\ Slot(u) # NoHandle /\ Slot(u) = firstGot[u]

\* C5: get() makes at most one successful open per thread, it opens only
\* while the caller's entry is vacant, and once the entry of a thread is
\* filled no get() of that thread opens again.
C5_AtMostOneOpenPerThread ==
  /\ [](\A t \in Threads :
          /\ getOpenOk[t] <= 1
          /\ pc[t] = "get_open" => Slot(t) = NoHandle)
  /\ [][\A t \in Threads :
          (status[t] = "running" /\ Slot(t) # NoHandle)
            => getOpens'[t] = getOpens[t]]_vars

\* A thread that filled its entry called get() again; still one open.
C5_Witness ==
  \E t \in Threads :
    /\ getOpenOk[t] = 1 /\ getOpens[t] = 1
    /\ pc[t] = "idle" /\ ret[t].op = "get" /\ callOpens[t] = 0
    /\ Slot(t) = firstGot[t] /\ Slot(t) # NoHandle

\* C6: a get_uncached() call changes no entry of the table, no thread id and
\* no get() in progress, so a later get() finds what it would have found.
C6_UncachedLeavesTable ==
  [][\A t \in Threads :
       ucCalls'[t] # ucCalls[t]
         => /\ tl' = tl /\ tid' = tid /\ freeIds' = freeIds /\ freeFrom' = freeFrom
            /\ pc' = pc /\ opened' = opened /\ firstGot' = firstGot
            /\ path' = path]_vars

\* One thread got a Repository from get_uncached() and its entry is vacant;
\* another has a filled entry, called get_uncached(), and get() afterwards
\* returned the cached Repository.
C6_Witness ==
  /\ \E t \in Threads :
       /\ status[t] = "running" /\ Slot(t) = NoHandle
       /\ ret[t].op = "get_uncached" /\ ret[t].ok
  /\ \E u \in Threads :
       /\ ucCalls[u] > 0 /\ getOpenOk[u] = 1
       /\ ret[u].op = "get" /\ callOpens[u] = 0 /\ ret[u].h = firstGot[u]

\* C7: every get_uncached() call makes exactly one Repository::open, and on
\* success returns a Repository object that is in no entry of the table and
\* was returned by no earlier get_uncached().
C7_UncachedOpensFresh ==
  [][\A t \in Threads :
       ucCalls'[t] # ucCalls[t]
         => /\ openCalls' = openCalls + 1
            /\ callOpens'[t] = 1
            /\ ret'[t].op = "get_uncached"
            /\ ret'[t].ok =>
                 /\ ret'[t].h \notin Stored \cup ucReturned
                 /\ ret'[t].h \notin {opened[u] : u \in Threads}
                 /\ ret'[t].h \notin {tl'[i] : i \in SlotIds}]_vars

\* get_uncached() succeeded a second time, on a thread whose entry is filled.
C7_Witness ==
  \E t \in Threads :
    /\ status[t] = "running" /\ Slot(t) # NoHandle
    /\ ret[t].op = "get_uncached" /\ ret[t].ok /\ callOpens[t] = 1
    /\ Cardinality(ucReturned) >= 2

\* C8: an entry that holds a Repository keeps holding that same Repository:
\* no step removes or replaces it, the exit of its thread included.
C8_EntriesNeverChange ==
  [][\A i \in SlotIds : tl[i] # NoHandle => tl'[i] = tl[i]]_vars

\* The thread has exited and the entry it filled still holds its Repository.
C8_Witness ==
  \E t \in Threads :
    /\ status[t] = "exited" /\ getOpenOk[t] = 1
    /\ tl[tid[t]] = firstGot[t] /\ firstGot[t] # NoHandle

\* C9: while no open made by get() has failed and no call is in progress,
\* the number of opens made by get() equals the number of distinct threads
\* that have called get().
C9_OpensEqualThreads ==
  (AllIdle /\ GetOpenOkTotal = GetOpensTotal)
    => GetOpensTotal = Cardinality(Called)

\* C10: a completed call made at most one Repository::open, returned Err
\* exactly when that open failed, and returned the error the open produced.
C10_ErrorVerbatim ==
  \A t \in Threads :
    /\ callOpens[t] <= 1
    /\ (pc[t] = "idle" /\ ret[t].op # "none") =>
         /\ ~ret[t].ok <=> (lastOpen[t].called /\ ~lastOpen[t].ok)
         /\ ~ret[t].ok => (callOpens[t] = 1 /\ ret[t].err = lastOpen[t].err)
         /\ ret[t].ok => ret[t].err = "none"

\* A get() and a get_uncached() have failed with the error of their open,
\* and a third call made its one open and succeeded.
C10_Witness ==
  \E t, u \in Threads :
    /\ pc[t] = "idle" /\ ret[t].op = "get" /\ ret[t].err = "NotFound"
    /\ pc[u] = "idle" /\ ret[u].op = "get_uncached" /\ ret[u].err = "NotFound"
    /\ callOpens[t] = 1 /\ callOpens[u] = 1 /\ openCalls = 3 /\ nextHandle = 2

C12_NewStoresPath ==
  /\ (openCalls = 0 /\ path = ctor.arg /\ \A i \in SlotIds : tl[i] = NoHandle)
  /\ [][path' = path]_vars
  /\ [](\A t \in Threads : lastOpen[t].called => lastOpen[t].arg = ctor.arg)

\* new was given "repoB"; a get() failed on it and a get_uncached() succeeded
\* on it, both opening "repoB".
C12_Witness ==
  \E t, u \in Threads :
    /\ ctor.arg = "repoB" /\ ctor.h = NoHandle
    /\ pc[t] = "idle" /\ ret[t].op = "get" /\ ~ret[t].ok
    /\ lastOpen[t].called /\ lastOpen[t].arg = "repoB"
    /\ ret[u].op = "get_uncached" /\ ret[u].ok
    /\ lastOpen[u].called /\ lastOpen[u].arg = "repoB"

\* C13: under every interleaving of the steps of concurrent get() calls, two
\* running threads never hold the same thread id, an entry is written only by
\* the insert step of the running thread that holds its id (into a vacant
\* entry, leaving all other entries alone), and a thread whose get() returned
\* Ok has that Repository in its entry and in no other.
C13_OwnSlotOnly ==
  /\ [](\A t, u \in Threads :
          (t # u /\ status[t] = "running" /\ status[u] = "running" /\ tid[t] # NoId)
            => tid[t] # tid[u])
  /\ [][\A i \in SlotIds :
          tl'[i] # tl[i] =>
            /\ tl[i] = NoHandle
            /\ \A j \in SlotIds \ {i} : tl'[j] = tl[j]
            /\ \E t \in Threads :
                 /\ tid[t] = i /\ status[t] = "running"
                 /\ pc[t] = "get_insert" /\ pc'[t] = "idle"
                 /\ tl'[i] = opened[t] /\ ret'[t] = Ok("get", opened[t])]_vars
  /\ [](\A t \in Threads :
          firstGot[t] # NoHandle =>
            /\ tl[tid[t]] = firstGot[t]
            /\ Cardinality({i \in SlotIds : tl[i] = firstGot[t]}) = 1)

\* One thread has filled its entry while another, with a different thread
\* id, holds a newly opened Repository it has not inserted yet.
C13_Witness ==
  \E t, u \in Threads :
    /\ t # u /\ status[t] = "running" /\ status[u] = "running"
    /\ pc[t] = "idle" /\ Slot(t) # NoHandle /\ Slot(t) = firstGot[t]
    /\ pc[u] = "get_insert" /\ opened[u] # Slot(t)
    /\ tid[u] # tid[t] /\ tl[tid[u]] = NoHandle

\* C14: a call in progress can always take its next step, whatever the other
\* threads are doing (none waits for another, so no deadlock), and with the
\* caller scheduled fairly every started call returns.
C14_CallsComplete ==
  /\ [](\A t \in Threads :
          /\ pc[t] = "get_open" => ENABLED GetOpen(t)
          /\ pc[t] = "get_insert" => ENABLED GetInsert(t))
  /\ \A t \in Threads : (pc[t] # "idle") ~> (pc[t] = "idle")

\* Two get() calls are in progress at once, one about to open and one about
\* to insert, after an earlier call has already returned.
C14_Witness ==
  \E t, u \in Threads :
    /\ pc[t] = "get_open" /\ pc[u] = "get_insert"
    /\ ret[t].op # "none"

\* C15: a get() of a thread whose entry is filled returns Ok with the stored
\* Repository, opens nothing and changes no entry, also while the repository
\* cannot be opened; at such a moment every open made by a get() that found
\* no entry and by get_uncached() makes the call return Err.
C15_HitNeedsNoOpen ==
  /\ [][\A t \in Threads :
          (/\ status[t] = "running" /\ Slot(t) # NoHandle
           /\ ucCalls'[t] = ucCalls[t]
           /\ \/ ret'[t] # ret[t]
              \/ pc'[t] # pc[t]
              \/ callOpens'[t] # callOpens[t])
            => /\ ret'[t] = Ok("get", Slot(t))
               /\ pc'[t] = "idle" /\ callOpens'[t] = 0
               /\ openCalls' = openCalls /\ tl' = tl]_vars
  /\ [][\A t \in Threads :
          (/\ fs[path] # "valid"
           /\ getOpens'[t] # getOpens[t] \/ ucCalls'[t] # ucCalls[t])
            => (~ret'[t].ok /\ ret'[t].err = "NotFound" /\ pc'[t] = "idle")]_vars

\* The repository is gone: the thread that filled its entry earlier has just
\* been served from it, the get() of a thread without an entry has failed,
\* and get_uncached() has been called without ever returning a Repository.
C15_Witness ==
  \E t, u \in Threads :
    /\ fs[path] # "valid"
    /\ getOpenOk[t] = 1 /\ pc[t] = "idle"
    /\ ret[t] = Ok("get", Slot(t)) /\ callOpens[t] = 0
    /\ status[u] = "running" /\ tid[u] # NoId /\ Slot(u) = NoHandle
    /\ getErrs[u] = 1 /\ ucCalls[u] = 1 /\ ucReturned = {}

Committed == Cardinality({i \in SlotIds : tl[i] # NoHandle})
GetMissesTotal == SumOver(getMisses, Threads)
UcCallsTotal == SumOver(ucCalls, Threads)
\* get() calls whose open has succeeded and whose insert is still to come.
Pending == Cardinality({t \in Threads : pc[t] = "get_insert"})

\* C16 as stated: in every reachable state the number of filled entries
\* equals the number of successful opens made by get(), and the number of
\* opens equals the completed get() calls that found the entry vacant plus
\* the completed get_uncached() calls.
C16_AccountingEveryState ==
  /\ Committed = GetOpenOkTotal
  /\ openCalls = GetMissesTotal + UcCallsTotal

\* C16, amended: the two equalities hold up to the get() calls that have
\* opened successfully and not yet inserted; each such call counts as one
\* successful open that is neither a filled entry nor a completed call.
C16_Accounting ==
  /\ Committed + Pending = GetOpenOkTotal
  /\ openCalls = GetMissesTotal + UcCallsTotal + Pending
  /\ openCalls = GetOpensTotal + UcCallsTotal

\* An entry is filled, a get_uncached() has completed, and a get() of another
\* thread has opened successfully and not inserted yet.
C16_Witness ==
  /\ Committed = 1 /\ UcCallsTotal = 1 /\ Pending = 1
  /\ GetOpenOkTotal = 2 /\ openCalls = 3 /\ GetMissesTotal = 1

\* C17: a thread whose get() failed one or more times and then opened
\* successfully has that one Repository in its entry, every get() since has
\* returned it without a further open, and the entries other threads filled
\* still hold what those threads got.
C17_SuccessAfterFailures ==
  \A t \in Threads :
    (getErrs[t] >= 1 /\ getOpenOk[t] >= 1 /\ pc[t] = "idle") =>
      /\ firstGot[t] # NoHandle /\ tl[tid[t]] = firstGot[t]
      /\ getOpenOk[t] = 1 /\ getOpens[t] = getErrs[t] + 1
      /\ ret[t].op = "get" => ret[t] = Ok("get", firstGot[t])
      /\ \A u \in Threads \ {t} :
           firstGot[u] # NoHandle => tl[tid[u]] = firstGot[u]

\* The thread failed, then succeeded, and its last get() was served from its
\* entry; another thread has filled its own entry with a different Repository.
C17_Witness ==
  \E t, u \in Threads :
    /\ t # u
    /\ getErrs[t] >= 1 /\ getOpenOk[t] = 1 /\ pc[t] = "idle"
    /\ ret[t] = Ok("get", firstGot[t]) /\ callOpens[t] = 0
    /\ getOpenOk[u] = 1 /\ getErrs[u] = 0
    /\ firstGot[u] # NoHandle /\ firstGot[u] # firstGot[t]

====
